---- MODULE Spec2Model ----
(***************************************************************************)
(* Model of the batch validation pipeline of validate-github-skills:       *)
(* validateUsers (batch orchestrator), validateUser and fetchUserReadme    *)
(* (fetcher), checkCompletion (content check).                             *)
(*                                                                         *)
(* JavaScript runs to completion between awaits, so every action below is  *)
(* one run of the event loop: the synchronous code from one await to the   *)
(* next.  Strings the code inspects character by character (usernames,     *)
(* README bodies) are sequences of one-character strings; strings it only  *)
(* passes on or concatenates are TLA+ strings.                             *)
(***************************************************************************)
EXTENDS Integers, Sequences, FiniteSets, TLC

(***************************************************************************)
(* Bounds of the model.                                                    *)
(***************************************************************************)
\* longest username list handed to validateUsers
MaxUsers == 11
\* most usernames of one list that are not blank (that reach the network)
MaxLive == 2
\* most invocations of handleValidation on one page
MaxRuns == 2

(***************************************************************************)
(* JavaScript values.                                                      *)
(***************************************************************************)
\* null, for the optional token (a TLA+ string otherwise)
Null == "<null>"
\* ToBoolean of a token
Truthy(v) == v \notin {Null, ""}

\* a value whose type the code does not know beforehand (a fetched body, a
\* field of parsed JSON): a string of characters, or undefined
Str(chars) == [type |-> "string", chars |-> chars]
Undefined == [type |-> "undefined"]

WhiteSpace == {" ", "\t", "\n"}

RECURSIVE trimStart(_)
trimStart(s) ==
    IF s # <<>> /\ Head(s) \in WhiteSpace THEN trimStart(Tail(s)) ELSE s

RECURSIVE trimEnd(_)
trimEnd(s) ==
    IF s # <<>> /\ s[Len(s)] \in WhiteSpace
    THEN trimEnd(SubSeq(s, 1, Len(s) - 1))
    ELSE s

\* String.prototype.trim
trim(s) == trimEnd(trimStart(s))

UpperCase ==
    << "A", "B", "C", "D", "E", "F", "G", "H", "I", "J", "K", "L", "M",
       "N", "O", "P", "Q", "R", "S", "T", "U", "V", "W", "X", "Y", "Z" >>
LowerCase ==
    << "a", "b", "c", "d", "e", "f", "g", "h", "i", "j", "k", "l", "m",
       "n", "o", "p", "q", "r", "s", "t", "u", "v", "w", "x", "y", "z" >>
Digits == { "0", "1", "2", "3", "4", "5", "6", "7", "8", "9" }

\* String.prototype.toLowerCase
toLowerCase(s) ==
    [ p \in 1..Len(s) |->
        IF \E k \in 1..26 : UpperCase[k] = s[p]
        THEN LowerCase[CHOOSE k \in 1..26 : UpperCase[k] = s[p]]
        ELSE s[p] ]

\* String.prototype.includes
includes(s, sub) ==
    \E k \in 0..(Len(s) - Len(sub)) : SubSeq(s, k + 1, k + Len(sub)) = sub

\* Array.prototype.slice(from, to) on 0-based indices, to exclusive
slice(arr, from, to) ==
    SubSeq(arr, from + 1, IF to < Len(arr) THEN to ELSE Len(arr))

\* a completed computation: a value returned, or an Error thrown
Return(v) == [threw |-> FALSE, value |-> v]
Throw(m) == [threw |-> TRUE, message |-> m]

(***************************************************************************)
(* Constants of the API module.                                            *)
(***************************************************************************)
COMPLETION_PHRASE ==
    << "Y","o","u","'","v","e"," ","s","u","c","c","e","s","s","f","u","l",
       "l","y"," ","c","o","m","p","l","e","t","e","d"," ","t","h","i","s",
       " ","e","x","e","r","c","i","s","e","!" >>
RATE_LIMIT_ERROR == "API rate limit exceeded"
CORS_PROXY == "https://api.allorigins.win/get?url="

BatchSizeToken == 10
BatchSizeNoToken == 5
DelayToken == 100
DelayNoToken == 500

\* mutant: the two sizes swapped
batchSize_swapped(tok) == IF Truthy(tok) THEN BatchSizeNoToken ELSE BatchSizeToken

\* const batchSize = token ? 10 : 5
batchSize(tok) == IF Truthy(tok) THEN BatchSizeToken ELSE BatchSizeNoToken
\* const delay = token ? 100 : 500
delay(tok) == IF Truthy(tok) THEN DelayToken ELSE DelayNoToken

(***************************************************************************)
(* State.                                                                  *)
(***************************************************************************)
VARIABLES
    rateLimited,        \* the raw host answers every request of this run 403
    usernames,          \* argument of validateUsers
    token,              \* argument of validateUsers: a string or Null
    progressCallback,   \* whether a progress callback was passed
    pc,                 \* where validateUsers is: idle, await_all, delay, done, failed
    i,                  \* loop variable of validateUsers
    results,            \* const results = []
    calls,              \* every validateUser call of the run, in the order made
    batches,            \* the slices taken so far (const batch), in order
    progressCalls,      \* arguments of every progressCallback invocation
    pauses,             \* milliseconds of every setTimeout of the run
    textarea,           \* elements.usernamesTextarea.value
    tokenInput,         \* elements.tokenInput.value
    hv,                 \* where handleValidation is: ready, warning, validating, returned
    errorMessage,       \* elements.errorMessage: hidden, textContent
    resultsSection,     \* elements.resultsSection with its summary and container
    loading,            \* checkButton.disabled, the spinner shown
    warningTimer,       \* the 5 s timer of showRateLimitWarning is set
    runs,               \* every handleValidation invocation, where invocations overlap
    buttonLabel         \* elements.buttonText.textContent, where invocations overlap

\* the page around the validation run
page == << textarea, tokenInput, hv, errorMessage, resultsSection, loading,
           warningTimer, runs, buttonLabel >>

vars == << rateLimited, usernames, token, progressCallback, pc, i, results,
           calls, batches, progressCalls, pauses, page >>

inputs == << rateLimited, usernames, token, progressCallback >>

(***************************************************************************)
(* The network: what a request or a body read may complete with.           *)
(***************************************************************************)
Response(status, statusText) == [status |-> status, statusText |-> statusText]
\* Response.ok
ok(response) == response.status \in 200..299

LOWER_CASE_PHRASE == <<"y">> \o Tail(COMPLETION_PHRASE)
\* README bodies a raw fetch may deliver
Bodies ==
    { Str(<<"#", " ">> \o COMPLETION_PHRASE \o <<" ", "G", "r", "e", "a", "t">>),
      Str(<<"#", " ">> \o LOWER_CASE_PHRASE) }
\* `contents` fields the proxy's envelope may hold
Contents ==
    { Str(COMPLETION_PHRASE), Str(<<>>) }

DirectOutcomes ==
    { Return(Response(200, "OK")),
      Return(Response(403, "Forbidden")),
      Return(Response(404, "Not Found")),
      Return(Response(500, "Internal Server Error")),
      Throw("Failed to fetch") }
TextOutcomes ==
    { Return(b) : b \in Bodies } \cup { Throw("network error") }
ProxyOutcomes ==
    { Return(Response(200, "OK")),
      Return(Response(502, "Bad Gateway")),
      Throw("Failed to fetch") }
\* response.json(): an envelope with contents, one without, or a parse error
JsonOutcomes ==
    { Return([contents |-> b]) : b \in Contents }
        \cup { Return([status |-> "no contents"]),
               Throw("Unexpected token < in JSON at position 0") }

(***************************************************************************)
(* fetchUserReadme, cut at its awaits.  A step says where the function     *)
(* waits next, the request it has just issued (if any) and, once it has    *)
(* returned, its {success, content | error} object.                        *)
(***************************************************************************)
ReadmeUrl(username) ==
    << "https://raw.githubusercontent.com/", username,
       "/skills-getting-started-with-github-copilot/main/README.md" >>

\* mutant: the header is set whether or not there is a token
Headers_always(tok) == ("Authorization" :> ("token " \o tok))

\* headers = {}; if (token) headers['Authorization'] = `token ${token}`
Headers(tok) ==
    IF Truthy(tok) THEN ("Authorization" :> ("token " \o tok)) ELSE <<>>

DirectRequest(username, tok) ==
    [to |-> "direct", url |-> ReadmeUrl(username), headers |-> Headers(tok)]

encodeURIComponent(url) == [encoded |-> url]

\* mutant: fetch(proxyUrl, { headers }), the headers of the direct request
ProxyRequest_withHeaders(username) ==
    [to |-> "proxy",
     url |-> <<CORS_PROXY, encodeURIComponent(ReadmeUrl(username))>>,
     headers |-> Headers(token)]

\* fetch(proxyUrl): no init object, so no headers
ProxyRequest(username) ==
    [to |-> "proxy",
     url |-> <<CORS_PROXY, encodeURIComponent(ReadmeUrl(username))>>,
     headers |-> <<>>]

Awaiting(stage, reqs) == [stage |-> stage, reqs |-> reqs, returned |-> <<>>]
Returned(obj) == [stage |-> "returned", reqs |-> <<>>, returned |-> <<obj>>]

Success(content) == [success |-> TRUE, content |-> content]

\* mutant: the catch reports a fixed text, not error.message
Failure_fixedText(message) == [success |-> FALSE, error |-> "Network error"]

\* catch (error) { return { success: false, error: error.message } }
Failure(message) == [success |-> FALSE, error |-> message]

\* mutant: a failed direct fetch (a CORS error) is retried through the proxy
fetchAfterDirect_proxyOnThrow(username, completion) ==
    IF completion.threw THEN Awaiting("proxy", <<ProxyRequest(username)>>)
    ELSE LET response == completion.value IN
         IF ok(response) THEN Awaiting("text", <<>>)
         ELSE IF response.status = 403 THEN Returned(Failure(RATE_LIMIT_ERROR))
         ELSE IF response.status = 404
              THEN Returned(Failure("Repository or README not found"))
         ELSE Awaiting("proxy", <<ProxyRequest(username)>>)

\* mutant: no check for 403, which goes to the proxy like any other status
fetchAfterDirect_no403(username, completion) ==
    IF completion.threw THEN Returned(Failure(completion.message))
    ELSE LET response == completion.value IN
         IF ok(response) THEN Awaiting("text", <<>>)
         ELSE IF response.status = 404
              THEN Returned(Failure("Repository or README not found"))
         ELSE Awaiting("proxy", <<ProxyRequest(username)>>)

\* mutant: no check for 404, which goes to the proxy like any other status
fetchAfterDirect_no404(username, completion) ==
    IF completion.threw THEN Returned(Failure(completion.message))
    ELSE LET response == completion.value IN
         IF ok(response) THEN Awaiting("text", <<>>)
         ELSE IF response.status = 403 THEN Returned(Failure(RATE_LIMIT_ERROR))
         ELSE Awaiting("proxy", <<ProxyRequest(username)>>)

\* let response = await fetch(url, { headers }); if (!response.ok) { ... }
fetchAfterDirect(username, completion) ==
    IF completion.threw THEN Returned(Failure(completion.message))
    ELSE LET response == completion.value IN
         IF ok(response) THEN Awaiting("text", <<>>)
         ELSE IF response.status = 403 THEN Returned(Failure(RATE_LIMIT_ERROR))
         ELSE IF response.status = 404
              THEN Returned(Failure("Repository or README not found"))
         ELSE Awaiting("proxy", <<ProxyRequest(username)>>)

\* const content = await response.text(); return { success: true, content }
fetchAfterText(completion) ==
    IF completion.threw THEN Returned(Failure(completion.message))
    ELSE Returned(Success(completion.value))

\* mutant: the error of a failed fallback carries the status code only
fetchAfterProxy_noStatusText(completion) ==
    IF completion.threw THEN Returned(Failure(completion.message))
    ELSE LET response == completion.value IN
         IF ~ok(response)
         THEN Returned(Failure("HTTP " \o ToString(response.status)))
         ELSE Awaiting("json", <<>>)

\* response = await fetch(proxyUrl); if (!response.ok) throw ...
fetchAfterProxy(completion) ==
    IF completion.threw THEN Returned(Failure(completion.message))
    ELSE LET response == completion.value IN
         IF ~ok(response)
         THEN Returned(Failure("HTTP " \o ToString(response.status) \o ": "
                               \o response.statusText))
         ELSE Awaiting("json", <<>>)

\* mutant: the envelope is read at `content`, a field it does not have
fetchAfterJson_wrongField(completion) ==
    IF completion.threw THEN Returned(Failure(completion.message))
    ELSE LET data == completion.value IN
         Returned(Success(IF "content" \in DOMAIN data
                          THEN data.content ELSE Undefined))

\* const data = await response.json(); return { success: true, content: data.contents }
fetchAfterJson(completion) ==
    IF completion.threw THEN Returned(Failure(completion.message))
    ELSE LET data == completion.value IN
         Returned(Success(IF "contents" \in DOMAIN data
                          THEN data.contents ELSE Undefined))

(***************************************************************************)
(* checkCompletion and validateUser.                                       *)
(***************************************************************************)
\* mutant: the phrase is looked for without regard to case
checkCompletion_ignoreCase(content) ==
    IF content.type # "string"
    THEN Throw("Cannot read properties of undefined (reading 'includes')")
    ELSE Return(includes(toLowerCase(content.chars),
                         toLowerCase(COMPLETION_PHRASE)))

\* content.includes(COMPLETION_PHRASE); undefined has no includes
checkCompletion(content) ==
    IF content.type # "string"
    THEN Throw("Cannot read properties of undefined (reading 'includes')")
    ELSE Return(includes(content.chars, COMPLETION_PHRASE))

Result(username, status, details) ==
    [username |-> username, status |-> status, details |-> details]

\* mutant: validateUser without its try/catch
validateUserAfterFetch_noCatch(trimmedUsername, result) ==
    IF ~result.success
    THEN Return(Result(trimmedUsername, "error", result.error))
    ELSE LET isCompleted == checkCompletion(result.content) IN
         IF isCompleted.threw THEN isCompleted
         ELSE Return(Result(trimmedUsername,
                IF isCompleted.value THEN "completed" ELSE "not-completed",
                IF isCompleted.value THEN "Exercise completed successfully"
                                     ELSE "Completion phrase not found"))

\* mutant: a module-level flag, set by the first call that is rate-limited,
\* makes every call that returns after it report the rate limit
validateUserAfterFetch_sharedFlag(trimmedUsername, result) ==
    LET body ==
            IF ~result.success
            THEN Return(Result(trimmedUsername, "error", result.error))
            ELSE LET isCompleted == checkCompletion(result.content) IN
                 IF isCompleted.threw THEN isCompleted
                 ELSE Return(Result(trimmedUsername,
                        IF isCompleted.value THEN "completed" ELSE "not-completed",
                        IF isCompleted.value THEN "Exercise completed successfully"
                                             ELSE "Completion phrase not found"))
    IN IF \E c \in DOMAIN calls :
             /\ calls[c].stage = "fulfilled"
             /\ calls[c].settled[1].value.details = RATE_LIMIT_ERROR
       THEN Return(Result(trimmedUsername, "error", RATE_LIMIT_ERROR))
       ELSE IF body.threw
       THEN Return(Result(trimmedUsername, "error", body.message))
       ELSE body

\* the code of validateUser after `await fetchUserReadme(...)`, with its catch
validateUserAfterFetch(trimmedUsername, result) ==
    LET body ==
            IF ~result.success
            THEN Return(Result(trimmedUsername, "error", result.error))
            ELSE LET isCompleted == checkCompletion(result.content) IN
                 IF isCompleted.threw THEN isCompleted
                 ELSE Return(Result(trimmedUsername,
                        IF isCompleted.value THEN "completed" ELSE "not-completed",
                        IF isCompleted.value THEN "Exercise completed successfully"
                                             ELSE "Completion phrase not found"))
    IN IF body.threw
       THEN Return(Result(trimmedUsername, "error", body.message))
       ELSE body

(***************************************************************************)
(* Inputs: lists of up to MaxUsers usernames of which up to MaxLive, the    *)
(* first or the last of the list, are not blank; padded and unpadded.      *)
(* Against a host that rate-limits the whole run (every direct request is  *)
(* answered 403) the lists have no blank username, so that whole batches   *)
(* are in flight together.                                                 *)
(***************************************************************************)
LiveNames ==
    << <<"a", "l", "i", "c", "e">>,
       <<" ", "g", "h", "o", "s", "t">>,
       <<"b", "o", "b", " ", "\n">> >>
BlankNames == << <<>>, <<" ", "\t">> >>

InputList(n, s, k) ==
    [p \in 1..n |->
        IF s <= p /\ p < s + k
        THEN LiveNames[(p % Len(LiveNames)) + 1]
        ELSE BlankNames[(p % Len(BlankNames)) + 1]]

InputLists ==
    UNION { { InputList(n, s, k) : s \in {1, n - k + 1} } :
            n \in 0..MaxUsers, k \in 0..MaxLive }

FullLists == { InputList(n, 1, n) : n \in 0..MaxUsers }

\* lists naming one account twice, the second time padded or not
RepeatedLists ==
    { << LiveNames[1], LiveNames[1] >>,
      << LiveNames[1], <<" ">> \o LiveNames[1] \o <<"\n">> >> }

Tokens == {Null, "ghp_x"}

\* what the direct fetch of a call may complete with in this run
DirectAnswers ==
    IF rateLimited THEN { Return(Response(403, "Forbidden")) } ELSE DirectOutcomes

(***************************************************************************)
(* validateUser, up to its first await.                                    *)
(***************************************************************************)
\* mutant: no guard for a username that is blank after trimming
validateUser_noBlankGuard(username, tok, k) ==
    LET trimmedUsername == trim(username) IN
    [arg |-> username, username |-> trimmedUsername, batch |-> k,
     stage |-> "direct", reqs |-> <<DirectRequest(trimmedUsername, tok)>>,
     resps |-> <<>>, settled |-> <<>>]

\* mutant: a username seen earlier in the run is not fetched again
validateUser_oncePerName(username, tok, k) ==
    LET trimmedUsername == trim(username) IN
    IF trimmedUsername = <<>>
    THEN [arg |-> username, username |-> trimmedUsername, batch |-> k,
          stage |-> "fulfilled", reqs |-> <<>>, resps |-> <<>>,
          settled |-> <<Return(Result(trimmedUsername, "error",
                                      "Invalid username"))>>]
    ELSE IF \E c \in DOMAIN calls : calls[c].username = trimmedUsername
    THEN [arg |-> username, username |-> trimmedUsername, batch |-> k,
          stage |-> "fulfilled", reqs |-> <<>>, resps |-> <<>>,
          settled |-> <<Return(Result(trimmedUsername, "error",
                                      "Duplicate username"))>>]
    ELSE [arg |-> username, username |-> trimmedUsername, batch |-> k,
          stage |-> "direct", reqs |-> <<DirectRequest(trimmedUsername, tok)>>,
          resps |-> <<>>, settled |-> <<>>]

\* the promise of one validateUser call and what the call has done so far
validateUser(username, tok, k) ==
    LET trimmedUsername == trim(username) IN
    IF trimmedUsername = <<>>
    THEN [arg |-> username, username |-> trimmedUsername, batch |-> k,
          stage |-> "fulfilled", reqs |-> <<>>, resps |-> <<>>,
          settled |-> <<Return(Result(trimmedUsername, "error",
                                      "Invalid username"))>>]
    ELSE [arg |-> username, username |-> trimmedUsername, batch |-> k,
          stage |-> "direct", reqs |-> <<DirectRequest(trimmedUsername, tok)>>,
          resps |-> <<>>, settled |-> <<>>]

\* a call resumed by the completion of what it awaited
resume(call, completion, step) ==
    LET heard == Append(call.resps, [of |-> call.stage, got |-> completion]) IN
    IF step.stage = "returned"
    THEN LET c == validateUserAfterFetch(call.username, step.returned[1]) IN
         [call EXCEPT !.stage = IF c.threw THEN "rejected" ELSE "fulfilled",
                      !.resps = heard,
                      !.settled = <<c>>]
    ELSE [call EXCEPT !.stage = step.stage,
                      !.resps = heard,
                      !.reqs = @ \o step.reqs]

Settled(call) == call.stage \in {"fulfilled", "rejected"}

(***************************************************************************)
(* validateUsers.                                                          *)
(***************************************************************************)
\* mutant: Promise.race in place of Promise.all
PromiseAll_race(promises) ==
    IF \E j \in DOMAIN promises : promises[j].stage = "rejected"
    THEN "rejected"
    ELSE IF \E j \in DOMAIN promises : promises[j].stage = "fulfilled"
    THEN "fulfilled"
    ELSE "pending"

\* Promise.all: rejected with the first rejection, fulfilled when all are
PromiseAll(promises) ==
    IF \E j \in DOMAIN promises : promises[j].stage = "rejected"
    THEN "rejected"
    ELSE IF \A j \in DOMAIN promises : promises[j].stage = "fulfilled"
    THEN "fulfilled"
    ELSE "pending"

\* what awaiting a promise gives (a promise itself while it is pending)
awaited(promise) ==
    IF promise.stage = "fulfilled" THEN promise.settled[1].value
    ELSE Result(promise.username, "pending", "")

\* mutant: results.unshift(...batchResults)
push_unshift(arr, items) == items \o arr

\* results.push(...batchResults)
push(arr, items) == arr \o items

\* mutant: the callback gets the number of batches done, not of results
progressArguments_perBatch(res, names) == << Len(batches), Len(names) >>

\* progressCallback(results.length, usernames.length)
progressArguments(res, names) == << Len(res), Len(names) >>

\* mutant: `<=` for `<`, a pause after a final batch that is full
hasNextBatch_orEqual(from, size, names) == from + size <= Len(names)

\* if (i + batchSize < usernames.length): another batch follows
hasNextBatch(from, size, names) == from + size < Len(names)

\* mutant: the callback is left out when a pause is to follow
invokeProgress_unlessPausing(log, callback, res, names) ==
    IF callback /\ ~hasNextBatch(i, batchSize(token), names)
    THEN Append(log, progressArguments(res, names))
    ELSE log

\* if (progressCallback) { progressCallback(results.length, usernames.length) }
invokeProgress(log, callback, res, names) ==
    IF callback THEN Append(log, progressArguments(res, names)) ELSE log

\* the promises of the batch validateUsers is waiting for
batchPromises == SelectSeq(calls, LAMBDA c : c.batch = Len(batches))

\* the loop of validateUsers(names, tok, ...) from its test
\* `from < usernames.length` on
LoopOver(names, tok, from) ==
    /\ i' = from
    /\ IF from < Len(names)
       THEN LET batch == slice(names, from, from + batchSize(tok))
                k == Len(batches) + 1
            IN /\ batches' = Append(batches, batch)
               /\ calls' = calls \o
                    [j \in 1..Len(batch) |-> validateUser(batch[j], tok, k)]
               /\ pc' = "await_all"
       ELSE /\ pc' = "done"
            /\ UNCHANGED << batches, calls >>

\* the loop of the running validateUsers call
LoopFrom(from) == LoopOver(usernames, token, from)

\* the elements of the page as the document has them when loaded
Hidden == [hidden |-> TRUE, textContent |-> <<>>]
NoResults == [hidden |-> TRUE, summaryStats |-> <<>>, resultsContainer |-> <<>>]
PageLoaded ==
    /\ hv = "ready"
    /\ errorMessage = Hidden
    /\ resultsSection = NoResults
    /\ loading = FALSE
    /\ warningTimer = FALSE
    /\ runs = <<>>
    /\ buttonLabel = << "Check Completion" >>

Init ==
    /\ rateLimited \in BOOLEAN
    /\ usernames \in (IF rateLimited THEN FullLists
                      ELSE InputLists \cup RepeatedLists)
    /\ token \in Tokens
    /\ progressCallback \in BOOLEAN
    /\ pc = "idle"
    /\ i = 0
    /\ results = <<>>
    /\ calls = <<>>
    /\ batches = <<>>
    /\ progressCalls = <<>>
    /\ pauses = <<>>
    /\ textarea = <<>>
    /\ tokenInput = <<>>
    /\ PageLoaded

\* validateUsers(usernames, token, progressCallback) is called
Call ==
    /\ pc = "idle"
    /\ results' = <<>>
    /\ LoopFrom(0)
    /\ UNCHANGED << inputs, page, progressCalls, pauses >>

\* the direct fetch of call c completes
DirectResponds(c, completion) ==
    /\ calls[c].stage = "direct"
    /\ calls' = [calls EXCEPT ![c] =
                    resume(@, completion, fetchAfterDirect(@.username, completion))]
    /\ UNCHANGED << inputs, page, pc, i, results, batches, progressCalls, pauses >>

\* response.text() of call c completes
TextSettles(c, completion) ==
    /\ calls[c].stage = "text"
    /\ calls' = [calls EXCEPT ![c] = resume(@, completion, fetchAfterText(completion))]
    /\ UNCHANGED << inputs, page, pc, i, results, batches, progressCalls, pauses >>

\* the fetch through the proxy of call c completes
ProxyResponds(c, completion) ==
    /\ calls[c].stage = "proxy"
    /\ calls' = [calls EXCEPT ![c] = resume(@, completion, fetchAfterProxy(completion))]
    /\ UNCHANGED << inputs, page, pc, i, results, batches, progressCalls, pauses >>

\* response.json() of call c completes
JsonSettles(c, completion) ==
    /\ calls[c].stage = "json"
    /\ calls' = [calls EXCEPT ![c] = resume(@, completion, fetchAfterJson(completion))]
    /\ UNCHANGED << inputs, page, pc, i, results, batches, progressCalls, pauses >>

\* await Promise.all(batchPromises) completes; the rest of the loop body
BatchJoin ==
    /\ pc = "await_all"
    /\ PromiseAll(batchPromises) # "pending"
    /\ IF PromiseAll(batchPromises) = "rejected"
       THEN /\ pc' = "failed"
            /\ UNCHANGED << i, results, calls, batches, progressCalls, pauses >>
       ELSE LET batchResults ==
                    [j \in 1..Len(batchPromises) |-> awaited(batchPromises[j])]
                pushed == push(results, batchResults)
            IN /\ results' = pushed
               /\ progressCalls' =
                    invokeProgress(progressCalls, progressCallback, pushed, usernames)
               /\ IF hasNextBatch(i, batchSize(token), usernames)
                  THEN /\ pauses' = Append(pauses, delay(token))
                       /\ pc' = "delay"
                       /\ UNCHANGED << i, calls, batches >>
                  ELSE /\ LoopFrom(i + batchSize(token))
                       /\ UNCHANGED pauses
    /\ UNCHANGED << inputs, page >>

\* the timer set between two batches fires; the next iteration starts
DelayElapsed ==
    /\ pc = "delay"
    /\ LoopFrom(i + batchSize(token))
    /\ UNCHANGED << inputs, page, results, progressCalls, pauses >>

Next ==
    \/ Call
    \/ \E c \in DOMAIN calls : \E o \in DirectAnswers : DirectResponds(c, o)
    \/ \E c \in DOMAIN calls : \E o \in TextOutcomes : TextSettles(c, o)
    \/ \E c \in DOMAIN calls : \E o \in ProxyOutcomes : ProxyResponds(c, o)
    \/ \E c \in DOMAIN calls : \E o \in JsonOutcomes : JsonSettles(c, o)
    \/ BatchJoin
    \/ DelayElapsed

Spec == Init /\ [][Next]_vars

\* what call c awaits from the network completes
Settles(c) ==
    /\ c \in DOMAIN calls
    /\ \/ \E o \in DirectAnswers : DirectResponds(c, o)
       \/ \E o \in TextOutcomes : TextSettles(c, o)
       \/ \E o \in ProxyOutcomes : ProxyResponds(c, o)
       \/ \E o \in JsonOutcomes : JsonSettles(c, o)

\* Every network call settles, every timer fires and every continuation whose
\* promise has settled is run by the event loop.
Fairness ==
    /\ \A c \in 1..MaxUsers : WF_vars(Settles(c))
    /\ WF_vars(BatchJoin)
    /\ WF_vars(DelayElapsed)

\* validateUsers as handleValidation calls it: with a progress callback
FairInit == Init /\ progressCallback

FairSpec == FairInit /\ [][Next]_vars /\ Fairness

(***************************************************************************)
(* The page: the form, and handleValidation around one validateUsers run.  *)
(***************************************************************************)
\* a no-token run over more usernames than this shows the warning first
WarningThreshold == 10
\* the username pattern allows this many characters after the first
MaxRest == 38

\* String.prototype.split('\n')
RECURSIVE split(_)
split(s) ==
    IF \E p \in 1..Len(s) : s[p] = "\n"
    THEN LET p == CHOOSE q \in 1..Len(s) :
                     s[q] = "\n" /\ \A r \in 1..(q - 1) : s[r] # "\n"
         IN << SubSeq(s, 1, p - 1) >> \o split(SubSeq(s, p + 1, Len(s)))
    ELSE << s >>

\* getUsernames: the trimmed non-empty lines of the trimmed textarea value
getUsernames(value) ==
    LET text == trim(value) IN
    IF text = <<>> THEN <<>>
    ELSE LET lines == split(text)
             trimmed == [l \in 1..Len(lines) |-> trim(lines[l])]
         IN SelectSeq(trimmed, LAMBDA line : Len(line) > 0)

\* the string of the characters chars
RECURSIVE Text(_)
Text(chars) == IF chars = <<>> THEN "" ELSE chars[1] \o Text(Tail(chars))

\* getToken: the trimmed value of the token input, or null
getToken(value) ==
    LET tok == Text(trim(value)) IN
    IF Truthy(tok) THEN tok ELSE Null

\* [a-zA-Z0-9]
AlphaNumeric ==
    { UpperCase[k] : k \in 1..26 } \cup { LowerCase[k] : k \in 1..26 } \cup Digits

\* mutant: /^[a-zA-Z0-9-]{1,39}$/, the first character as free as the others
test_anyFirst(username) ==
    /\ Len(username) >= 1
    /\ Len(username) - 1 <= MaxRest
    /\ \A p \in 1..Len(username) : username[p] \in AlphaNumeric \cup {"-"}

\* /^[a-zA-Z0-9]([a-zA-Z0-9-]){0,38}$/.test(username)
test(username) ==
    /\ Len(username) >= 1
    /\ username[1] \in AlphaNumeric
    /\ Len(username) - 1 <= MaxRest
    /\ \A p \in 2..Len(username) : username[p] \in AlphaNumeric \cup {"-"}

\* validateForm; an error is its text and the usernames joined into it
validateForm(value) ==
    LET names == getUsernames(value)
        empty == IF Len(names) = 0
                 THEN << [text |-> "Please enter at least one GitHub username",
                          names |-> <<>>] >>
                 ELSE <<>>
        invalidUsernames == SelectSeq(names, LAMBDA username : ~test(username))
        invalid == IF Len(invalidUsernames) > 0
                   THEN << [text |-> "Invalid username format: ",
                            names |-> invalidUsernames] >>
                   ELSE <<>>
        errors == empty \o invalid
    IN [isValid |-> Len(errors) = 0, errors |-> errors]

\* showError(message)
showError(message) == [hidden |-> FALSE, textContent |-> message]
\* hideError()
hideError(element) == [element EXCEPT !.hidden = TRUE]
\* hideResults()
hideResults(section) == [section EXCEPT !.hidden = TRUE]
\* clearResults(), on the results section
clearResults(section) ==
    [hidden |-> TRUE, summaryStats |-> <<>>, resultsContainer |-> <<>>]

RateLimitNotice ==
    << [text |-> "Rate Limit Notice: Without a GitHub token, you may hit rate limits with large batches. Consider adding a Personal Access Token for better performance.",
        names |-> <<>>] >>

\* generateSummary(results)
generateSummary(res) ==
    [total |-> Len(res),
     completed |-> Len(SelectSeq(res, LAMBDA r : r.status = "completed")),
     notCompleted |-> Len(SelectSeq(res, LAMBDA r : r.status = "not-completed")),
     errors |-> Len(SelectSeq(res, LAMBDA r : r.status = "error"))]

\* [...results].sort(by status): completed, not-completed, error; stable
sortedResults(res) ==
    SelectSeq(res, LAMBDA r : r.status = "completed")
        \o SelectSeq(res, LAMBDA r : r.status = "not-completed")
        \o SelectSeq(res, LAMBDA r : r.status = "error")

\* renderResults(results)
renderResults(section, res) ==
    IF Len(res) = 0 THEN hideResults(section)
    ELSE [hidden |-> FALSE, summaryStats |-> << generateSummary(res) >>,
          resultsContainer |-> sortedResults(res)]

\* elements.buttonText.textContent, as showLoading, updateProgress and
\* hideLoading leave it
buttonText ==
    IF ~loading THEN << "Check Completion" >>
    ELSE IF progressCalls = <<>> THEN << "Checking..." >>
    ELSE LET current == progressCalls[Len(progressCalls)][1]
             total == progressCalls[Len(progressCalls)][2]
         IN << "Checking... ", current, "/", total,
               " (", (200 * current + total) \div (2 * total), "%)" >>

\* the textarea content of the given lines
RECURSIVE Lines(_)
Lines(lines) ==
    IF Len(lines) = 0 THEN <<>>
    ELSE IF Len(lines) = 1 THEN lines[1]
    ELSE lines[1] \o <<"\n">> \o Lines(Tail(lines))

Alice == <<"a", "l", "i", "c", "e">>
Bob1 == <<"B", "o", "b", "-", "1">>
\* a name of n characters with a hyphen inside
LongName(n) == [p \in 1..n |-> IF p = 2 THEN "-" ELSE "x"]

\* what the user may have typed: nothing, blanks, good names with and
\* without padding and empty lines, names that break the pattern
SmallTexts ==
    { <<>>,
      <<" ", "\n", "\t", " ">>,
      Alice,
      <<" ">> \o Alice \o <<" ", "\n", "\n", "\t">> \o Bob1 \o <<"\n">>,
      LongName(MaxRest + 1),
      LongName(MaxRest + 2),
      <<"-">> \o Alice,
      Lines(<< Alice, <<"-", "b", "o", "b">> >>),
      Lines(<< <<"b", "o", " ", "b">>, Alice >>),
      Lines(<< Alice, <<"a", "l", "_", "i", "c", "e">> >>) }

\* lists around the warning threshold, one good name a line
LargeTexts ==
    { Lines([p \in 1..n |-> <<"u", LowerCase[p]>>]) : n \in WarningThreshold..MaxUsers }

TokenInputs ==
    { <<>>, <<" ">>, <<"g", "h", "p", "_", "x">>,
      <<" ", "g", "h", "p", "_", "x", " ">> }

FormInit ==
    /\ rateLimited \in BOOLEAN
    /\ textarea \in (IF rateLimited THEN LargeTexts ELSE SmallTexts)
    /\ tokenInput \in TokenInputs
    /\ PageLoaded
    /\ usernames = <<>>
    /\ token = Null
    /\ progressCallback = TRUE
    /\ pc = "idle"
    /\ i = 0
    /\ results = <<>>
    /\ calls = <<>>
    /\ batches = <<>>
    /\ progressCalls = <<>>
    /\ pauses = <<>>

\* showLoading(), then validateUsers(names, tok, callback) up to its first await
StartValidation(names, tok) ==
    /\ loading' = TRUE
    /\ errorMessage' = hideError(errorMessage)
    /\ results' = <<>>
    /\ LoopOver(names, tok, 0)
    /\ hv' = "validating"
    /\ UNCHANGED << progressCalls, pauses, warningTimer >>

\* handleValidation is invoked (submit, or Ctrl/Cmd+Enter) and runs to its
\* first await or its return
Submit ==
    /\ hv = "ready"
    /\ LET validation == validateForm(textarea) IN
       IF ~validation.isValid
       THEN /\ errorMessage' = showError(validation.errors)
            /\ resultsSection' = clearResults(resultsSection)
            /\ hv' = "returned"
            /\ UNCHANGED << inputs, pc, i, results, calls, batches,
                            progressCalls, pauses, loading, warningTimer >>
       ELSE LET names == getUsernames(textarea)
                tok == getToken(tokenInput)
            IN /\ usernames' = names
               /\ token' = tok
               /\ UNCHANGED << rateLimited, progressCallback >>
               /\ IF ~Truthy(tok) /\ Len(names) > WarningThreshold
                  THEN /\ errorMessage' = showError(RateLimitNotice)
                       /\ warningTimer' = TRUE
                       /\ resultsSection' = clearResults(resultsSection)
                       /\ hv' = "warning"
                       /\ UNCHANGED << pc, i, results, calls, batches,
                                       progressCalls, pauses, loading >>
                  ELSE /\ resultsSection' = clearResults(resultsSection)
                       /\ StartValidation(names, tok)
    /\ UNCHANGED << textarea, tokenInput, runs, buttonLabel >>

\* the 2 s for reading the warning are over
WarningElapsed ==
    /\ hv = "warning"
    /\ resultsSection' = hideResults(resultsSection)
    /\ StartValidation(usernames, token)
    /\ UNCHANGED << inputs, textarea, tokenInput, runs, buttonLabel >>

\* the 5 s timer of showRateLimitWarning fires: hideError()
HideWarning ==
    /\ warningTimer
    /\ hv # "warning"
    /\ errorMessage' = hideError(errorMessage)
    /\ warningTimer' = FALSE
    /\ UNCHANGED << inputs, pc, i, results, calls, batches, progressCalls,
                    pauses, textarea, tokenInput, hv, resultsSection, loading,
                    runs, buttonLabel >>

\* validateUsers has returned or thrown: the rest of handleValidation
Finish ==
    /\ hv = "validating"
    /\ pc \in {"done", "failed"}
    /\ IF pc = "done"
       THEN /\ resultsSection' = renderResults(resultsSection, results)
            /\ UNCHANGED errorMessage
       ELSE /\ LET rejected == SelectSeq(batchPromises,
                                          LAMBDA q : q.stage = "rejected")
                    error == rejected[1].settled[1]
               IN errorMessage' =
                    showError(<< [text |-> "An error occurred during validation: "
                                             \o error.message,
                                  names |-> <<>>] >>)
            /\ UNCHANGED resultsSection
    /\ loading' = FALSE
    /\ hv' = "returned"
    /\ UNCHANGED << inputs, pc, i, results, calls, batches, progressCalls,
                    pauses, textarea, tokenInput, warningTimer, runs,
                    buttonLabel >>

FormNext ==
    \/ Submit
    \/ WarningElapsed
    \/ HideWarning
    \/ \E c \in DOMAIN calls : \E o \in DirectAnswers : DirectResponds(c, o)
    \/ \E c \in DOMAIN calls : \E o \in TextOutcomes : TextSettles(c, o)
    \/ \E c \in DOMAIN calls : \E o \in ProxyOutcomes : ProxyResponds(c, o)
    \/ \E c \in DOMAIN calls : \E o \in JsonOutcomes : JsonSettles(c, o)
    \/ BatchJoin
    \/ DelayElapsed
    \/ Finish

FormSpec == FormInit /\ [][FormNext]_vars

(***************************************************************************)
(* The page with overlapping invocations of handleValidation: the form's   *)
(* submit handler and the Ctrl/Cmd+Enter handler both call it, and each    *)
(* invocation has its own usernames, token and validateUsers run.  Here a  *)
(* validateUsers run is followed batch by batch: a join delivers one       *)
(* result per username of the batch (validateUser never rejects, so        *)
(* validateUsers does not throw) and the callback is invoked after it.     *)
(***************************************************************************)
\* one invocation: where it is (warning, await_all, delay, returned), its
\* locals, the loop variable and results of its validateUsers run, and
\* whether the 5 s timer it set in showRateLimitWarning is still to fire
Invocation(at, names, tok, from, res, timer) ==
    [at |-> at, usernames |-> names, token |-> tok, i |-> from,
     results |-> res, timer |-> timer]

\* elements.buttonText.textContent after showLoading() and hideLoading()
LoadingLabel == << "Checking..." >>
IdleLabel == << "Check Completion" >>

\* updateProgress(current, total), on the button text
updateProgress(current, total) ==
    << "Checking... ", current, "/", total,
       " (", (200 * current + total) \div (2 * total), "%)" >>

\* what validateUser may return for a username
Verdict(username, status) ==
    IF status = "completed"
    THEN Result(username, "completed", "Exercise completed successfully")
    ELSE IF status = "not-completed"
    THEN Result(username, "not-completed", "Completion phrase not found")
    ELSE Result(username, "error", RATE_LIMIT_ERROR)

\* what await Promise.all(batchPromises) may deliver for a batch
BatchResults(batch) ==
    IF rateLimited
    THEN { [j \in 1..Len(batch) |-> Verdict(batch[j], "error")] }
    ELSE { [j \in 1..Len(batch) |-> Verdict(batch[j], f[j])] :
             f \in [1..Len(batch) -> {"completed", "not-completed", "error"}] }

PageInit ==
    /\ rateLimited \in BOOLEAN
    /\ textarea \in (IF rateLimited THEN LargeTexts ELSE SmallTexts)
    /\ tokenInput \in TokenInputs
    /\ PageLoaded
    /\ usernames = <<>>
    /\ token = Null
    /\ progressCallback = TRUE
    /\ pc = "idle"
    /\ i = 0
    /\ results = <<>>
    /\ calls = <<>>
    /\ batches = <<>>
    /\ progressCalls = <<>>
    /\ pauses = <<>>

\* what no invocation touches while invocations overlap
single == << inputs, pc, i, results, calls, batches, progressCalls, pauses,
            textarea, tokenInput, hv, warningTimer >>

\* handleValidation() is called and runs to its first await or its return
handleValidation ==
    /\ Len(runs) < MaxRuns
    /\ resultsSection' = clearResults(resultsSection)
    /\ LET validation == validateForm(textarea) IN
       IF ~validation.isValid
       THEN /\ errorMessage' = showError(validation.errors)
            /\ runs' = Append(runs, Invocation("returned", <<>>, Null, 0, <<>>, FALSE))
            /\ UNCHANGED << loading, buttonLabel >>
       ELSE LET names == getUsernames(textarea)
                tok == getToken(tokenInput)
            IN IF ~Truthy(tok) /\ Len(names) > WarningThreshold
               THEN /\ errorMessage' = showError(RateLimitNotice)
                    /\ runs' = Append(runs, Invocation("warning", names, tok, 0, <<>>, TRUE))
                    /\ UNCHANGED << loading, buttonLabel >>
               ELSE /\ loading' = TRUE
                    /\ buttonLabel' = LoadingLabel
                    /\ errorMessage' = hideError(errorMessage)
                    /\ runs' = Append(runs, Invocation("await_all", names, tok, 0, <<>>, FALSE))
    /\ UNCHANGED single

\* the form's submit event; a disabled submit button submits nothing
FormSubmitted ==
    /\ ~loading
    /\ handleValidation

\* keydown with Ctrl/Cmd+Enter
ShortcutPressed == handleValidation

\* the 2 s of invocation r are over: showLoading(), validateUsers(...)
RunWarningElapsed(r) ==
    /\ runs[r].at = "warning"
    /\ loading' = TRUE
    /\ buttonLabel' = LoadingLabel
    /\ errorMessage' = hideError(errorMessage)
    /\ resultsSection' = hideResults(resultsSection)
    /\ runs' = [runs EXCEPT ![r].at = "await_all"]
    /\ UNCHANGED single

\* the 5 s timer set by invocation r fires: hideError()
RunHideWarning(r) ==
    /\ runs[r].timer
    /\ runs[r].at # "warning"
    /\ errorMessage' = hideError(errorMessage)
    /\ runs' = [runs EXCEPT ![r].timer = FALSE]
    /\ UNCHANGED << single, resultsSection, loading, buttonLabel >>

\* the batch of invocation r is joined: push, callback, then the pause or,
\* after the last batch, the return of validateUsers and the rest of
\* handleValidation (renderResults, finally hideLoading)
RunBatchJoin(r, batchResults) ==
    /\ runs[r].at = "await_all"
    /\ LET run == runs[r]
           pushed == push(run.results, batchResults)
       IN IF hasNextBatch(run.i, batchSize(run.token), run.usernames)
          THEN /\ buttonLabel' = updateProgress(Len(pushed), Len(run.usernames))
               /\ runs' = [runs EXCEPT ![r].at = "delay", ![r].results = pushed]
               /\ UNCHANGED << resultsSection, loading >>
          ELSE /\ resultsSection' = renderResults(resultsSection, pushed)
               /\ loading' = FALSE
               /\ buttonLabel' = IdleLabel
               /\ runs' = [runs EXCEPT ![r] =
                             Invocation("returned", <<>>, Null, 0, <<>>, run.timer)]
    /\ UNCHANGED << single, errorMessage >>

\* the pause of invocation r is over: the next batch is issued
RunDelayElapsed(r) ==
    /\ runs[r].at = "delay"
    /\ runs' = [runs EXCEPT ![r].at = "await_all",
                            ![r].i = @ + batchSize(runs[r].token)]
    /\ UNCHANGED << single, errorMessage, resultsSection, loading, buttonLabel >>

\* the batch invocation r is waiting for
RunBatch(r) ==
    slice(runs[r].usernames, runs[r].i, runs[r].i + batchSize(runs[r].token))

PageNext ==
    \/ FormSubmitted
    \/ ShortcutPressed
    \/ \E r \in DOMAIN runs : RunWarningElapsed(r)
    \/ \E r \in DOMAIN runs : RunHideWarning(r)
    \/ \E r \in DOMAIN runs : \E b \in BatchResults(RunBatch(r)) : RunBatchJoin(r, b)
    \/ \E r \in DOMAIN runs : RunDelayElapsed(r)

\* invocation r gets on: its fetches settle and its timers fire
RunProceeds(r) ==
    /\ r \in DOMAIN runs
    /\ \/ RunWarningElapsed(r)
       \/ \E b \in BatchResults(RunBatch(r)) : RunBatchJoin(r, b)
       \/ RunDelayElapsed(r)

PageFairness == \A r \in 1..MaxRuns : WF_vars(RunProceeds(r))

PageSpec == PageInit /\ [][PageNext]_vars /\ PageFairness

(***************************************************************************)
(* Properties.                                                             *)
(***************************************************************************)
Min(a, b) == IF a < b THEN a ELSE b

\* whether a token is present, and the batch size and pause claimed for it
TokenPresent == token \notin {Null, ""}
ClaimedBatchSize == IF TokenPresent THEN 10 ELSE 5
ClaimedDelay == IF TokenPresent THEN 100 ELSE 500
\* the number of batches claimed for the list: its length over the batch
\* size, rounded up
ClaimedBatches ==
    (Len(usernames) + ClaimedBatchSize - 1) \div ClaimedBatchSize

\* t is s without its leading and trailing white space
IsTrimOf(t, s) ==
    /\ t = <<>> \/ (t[1] \notin WhiteSpace /\ t[Len(t)] \notin WhiteSpace)
    /\ \E a \in 0..Len(s) :
          /\ a + Len(t) <= Len(s)
          /\ SubSeq(s, a + 1, a + Len(t)) = t
          /\ \A p \in 1..Len(s) :
                (p <= a \/ p > a + Len(t)) => s[p] \in WhiteSpace

Unsettled == { c \in DOMAIN calls : ~Settled(calls[c]) }

\* C1: at every moment the results are those of a prefix of the input list,
\* in input order, the j-th result carrying the trimmed j-th username; when
\* validateUsers returns there is exactly one result per input username.
C1_ResultsInInputOrder ==
    /\ Len(results) <= Len(usernames)
    /\ \A j \in 1..Len(results) :
          IsTrimOf(results[j].username, usernames[j])
    /\ pc = "done" => Len(results) = Len(usernames)

\* C1 witness: a run over more than one batch has returned, with a padded
\* username trimmed and a blank one among the results.
C1_Witness ==
    /\ pc = "done"
    /\ Len(batches) > 1
    /\ \E j \in 1..Len(results) :
          /\ results[j].username # <<>>
          /\ results[j].username # usernames[j]
    /\ \E j \in 1..Len(results) : results[j].username = <<>>

\* C2: the k-th batch is the k-th consecutive slice of the list, of 10
\* usernames with a token and 5 without, the last batch holding the
\* remainder; a finished run has taken all the slices.
C2_BatchesPartitionInput ==
    /\ \A k \in 1..Len(batches) :
          /\ (k - 1) * ClaimedBatchSize < Len(usernames)
          /\ batches[k] = SubSeq(usernames, (k - 1) * ClaimedBatchSize + 1,
                                 Min(k * ClaimedBatchSize, Len(usernames)))
          /\ Len(batches[k]) =
                IF k * ClaimedBatchSize <= Len(usernames)
                THEN ClaimedBatchSize
                ELSE Len(usernames) - (k - 1) * ClaimedBatchSize
    /\ pc = "done" => Len(batches) = ClaimedBatches

\* C2 witness: without a token, a list of 11 was cut into [5, 5, 1].
C2_Witness ==
    /\ pc = "done"
    /\ ~TokenPresent
    /\ Len(batches) = 3
    /\ Len(batches[1]) = 5 /\ Len(batches[2]) = 5 /\ Len(batches[3]) = 1

\* the batches whose join has run
JoinedBatches ==
    IF pc \in {"await_all", "failed"} THEN Len(batches) - 1 ELSE Len(batches)

\* C3: with a callback, it has been invoked once per joined batch, with a
\* strictly increasing first argument and usernames.length as the second;
\* the last invocation of a finished run has usernames.length as the first.
C3_ProgressPerBatch ==
    progressCallback =>
        /\ Len(progressCalls) = JoinedBatches
        /\ \A k \in 1..Len(progressCalls) :
              /\ progressCalls[k][2] = Len(usernames)
              /\ k > 1 => progressCalls[k - 1][1] < progressCalls[k][1]
        /\ (pc = "done" /\ usernames # <<>>) =>
              /\ progressCalls # <<>>
              /\ progressCalls[Len(progressCalls)][1] = Len(usernames)

\* C3 witness: a finished run of three batches, the callback invoked thrice.
C3_Witness ==
    /\ pc = "done"
    /\ progressCallback
    /\ Len(batches) = 3
    /\ Len(progressCalls) = 3

\* C4: every call of a batch is made, and its direct fetch issued, when the
\* batch starts; while a call of a later batch exists every call of an
\* earlier batch has settled; at most batchSize calls are unsettled.
C4_BatchesDoNotOverlap ==
    /\ \A k \in 1..Len(batches) :
          Len(SelectSeq(calls, LAMBDA c : c.batch = k)) = Len(batches[k])
    /\ \A c \in DOMAIN calls :
          calls[c].username # <<>> =>
              /\ calls[c].reqs # <<>>
              /\ calls[c].reqs[1].to = "direct"
    /\ \A a, b \in DOMAIN calls :
          calls[a].batch < calls[b].batch => Settled(calls[a])
    /\ Cardinality(Unsettled) <= ClaimedBatchSize

\* C4 witness: without a token the five calls of a second batch are in
\* flight together, every call of the first batch having gone to the network
\* and settled.
C4_Witness ==
    /\ Len(batches) = 2
    /\ Cardinality(Unsettled) = ClaimedBatchSize
    /\ \A c \in DOMAIN calls :
          calls[c].batch = 1 => (calls[c].reqs # <<>> /\ Settled(calls[c]))

\* C5: a pause follows a joined batch exactly when usernames remain after it
\* (so a finished run over a non-empty list paused once less than it had
\* batches), and every pause is 100 ms with a token and 500 ms without.
C5_PauseBetweenBatchesOnly ==
    /\ \A k \in 1..Len(pauses) : pauses[k] = ClaimedDelay
    /\ Len(pauses) <= JoinedBatches
    /\ \A k \in 1..JoinedBatches :
          (k <= Len(pauses)) <=> (k * ClaimedBatchSize < Len(usernames))
    /\ (pc = "done" /\ usernames # <<>>) => Len(pauses) = ClaimedBatches - 1

\* C5 witness: a finished run over a list that fills its batches exactly
\* (no pause after the last, full batch), having paused once.
C5_Witness ==
    /\ pc = "done"
    /\ Len(usernames) = 2 * ClaimedBatchSize
    /\ Len(pauses) = 1

Running == pc \in {"await_all", "delay"}

\* C6: under FairSpec a run never fails, and a started run goes on to return
\* one result per username, whatever the outcomes of its calls.
C6_RunCompletes ==
    /\ [](pc # "failed")
    /\ Running ~> (pc = "done" /\ Len(results) = Len(usernames))

\* C6 witness: a run has returned with a completed, a not-completed and an
\* error result none of which stopped it.
C6_Witness ==
    /\ pc = "done"
    /\ \E a, b \in 1..Len(results) :
          /\ results[a].status = "completed"
          /\ results[b].status = "error"
          /\ results[b].details = "Failed to fetch"

\* the requests call c has issued to the raw host and to the proxy
DirectRequests(c) == SelectSeq(calls[c].reqs, LAMBDA r : r.to = "direct")
ProxyRequests(c) == SelectSeq(calls[c].reqs, LAMBDA r : r.to = "proxy")

\* the direct fetch of call c was answered with HTTP status st
DirectStatus(c, st) ==
    /\ calls[c].resps # <<>>
    /\ calls[c].resps[1].of = "direct"
    /\ ~calls[c].resps[1].got.threw
    /\ calls[c].resps[1].got.value.status = st

\* call c has returned exactly the result {username, status, details}
Returns(c, status, details) ==
    /\ calls[c].stage = "fulfilled"
    /\ calls[c].settled =
          << [threw |-> FALSE,
              value |-> [username |-> calls[c].username, status |-> status,
                         details |-> details]] >>
    /\ IsTrimOf(calls[c].username, calls[c].arg)

\* C7: no validateUser call rejects; a settled call has exactly one result,
\* for its own username, with status completed, not-completed or error; a
\* call any of whose network operations threw has returned status error with
\* the exception's message as details.
C7_ValidateUserNeverThrows ==
    \A c \in DOMAIN calls :
        /\ calls[c].stage # "rejected"
        /\ Len(calls[c].settled) = (IF Settled(calls[c]) THEN 1 ELSE 0)
        /\ Settled(calls[c]) =>
              /\ ~calls[c].settled[1].threw
              /\ calls[c].settled[1].value.username = calls[c].username
              /\ calls[c].settled[1].value.status
                    \in {"completed", "not-completed", "error"}
        /\ \A r \in DOMAIN calls[c].resps :
              calls[c].resps[r].got.threw =>
                  Returns(c, "error", calls[c].resps[r].got.message)

\* C7 witness: one call got a proxy envelope without `contents` and returned
\* an error; another had its proxy request throw and returned that message.
C7_Witness ==
    \E c, d \in DOMAIN calls :
        /\ Len(calls[c].resps) = 3
        /\ calls[c].resps[3].of = "json"
        /\ ~calls[c].resps[3].got.threw
        /\ "contents" \notin DOMAIN calls[c].resps[3].got.value
        /\ calls[c].stage = "fulfilled"
        /\ calls[c].settled[1].value.status = "error"
        /\ Len(calls[d].resps) = 2
        /\ calls[d].resps[2].of = "proxy"
        /\ calls[d].resps[2].got.threw
        /\ Returns(d, "error", "Failed to fetch")

C9_RateLimitOn403 ==
    \A c \in DOMAIN calls :
        DirectStatus(c, 403) =>
            /\ Returns(c, "error", "API rate limit exceeded")
            /\ Len(calls[c].reqs) = 1

\* C9 witness: alice's direct fetch was answered 403.
C9_Witness ==
    \E c \in DOMAIN calls :
        /\ DirectStatus(c, 403)
        /\ calls[c].settled[1].value.username = <<"a", "l", "i", "c", "e">>

\* C10: a call whose direct fetch was answered 404 has returned status error
\* with details "Repository or README not found".
C10_NotFoundOn404 ==
    \A c \in DOMAIN calls :
        DirectStatus(c, 404) =>
            Returns(c, "error", "Repository or README not found")

\* C10 witness: ghost's direct fetch (the username was passed padded) was
\* answered 404.
C10_Witness ==
    \E c \in DOMAIN calls :
        /\ DirectStatus(c, 404)
        /\ calls[c].arg # calls[c].username
        /\ calls[c].settled[1].value.username = <<"g", "h", "o", "s", "t">>

\* the marker sentence a finished exercise's README carries
ClaimedMarker ==
    << "Y", "o", "u", "'", "v", "e", " ", "s", "u", "c", "c", "e", "s",
       "s", "f", "u", "l", "l", "y", " ", "c", "o", "m", "p", "l", "e",
       "t", "e", "d", " ", "t", "h", "i", "s", " ", "e", "x", "e", "r",
       "c", "i", "s", "e", "!" >>

\* chars holds the marker, character for character, at some position
HasMarker(chars) ==
    \E k \in 1..Len(chars) :
        \A j \in 1..Len(ClaimedMarker) :
            /\ k + j - 1 <= Len(chars)
            /\ chars[k + j - 1] = ClaimedMarker[j]

\* the direct fetch of call c was answered with a status that is neither a
\* success nor 403 nor 404
DirectOther(c) ==
    /\ calls[c].resps # <<>>
    /\ calls[c].resps[1].of = "direct"
    /\ ~calls[c].resps[1].got.threw
    /\ calls[c].resps[1].got.value.status \notin 200..299
    /\ calls[c].resps[1].got.value.status \notin {403, 404}

\* the r-th completion call c received was a response with a 2xx status
OkResponse(c, r) ==
    /\ Len(calls[c].resps) >= r
    /\ ~calls[c].resps[r].got.threw
    /\ calls[c].resps[r].got.value.status \in 200..299

\* the fallback of call c succeeded and its envelope has a string `contents`
FallbackContents(c) ==
    /\ Len(calls[c].resps) = 3
    /\ calls[c].resps[2].of = "proxy"
    /\ OkResponse(c, 2)
    /\ calls[c].resps[3].of = "json"
    /\ ~calls[c].resps[3].got.threw
    /\ "contents" \in DOMAIN calls[c].resps[3].got.value
    /\ calls[c].resps[3].got.value.contents.type = "string"

\* C11: when the direct request got a non-success status other than 403 and
\* 404 and the fallback succeeded, the `contents` field of the fallback's
\* envelope is the body checked: the call returns completed if `contents`
\* holds the marker and not-completed if it does not.
C11_FallbackContentsChecked ==
    \A c \in DOMAIN calls :
        (DirectOther(c) /\ FallbackContents(c)) =>
            IF HasMarker(calls[c].resps[3].got.value.contents.chars)
            THEN Returns(c, "completed", "Exercise completed successfully")
            ELSE Returns(c, "not-completed", "Completion phrase not found")

\* C11 witness: a direct 500, then an envelope whose contents hold the
\* marker, gave completed; another call's empty contents gave not-completed.
C11_Witness ==
    \E c, d \in DOMAIN calls :
        /\ DirectStatus(c, 500) /\ FallbackContents(c)
        /\ HasMarker(calls[c].resps[3].got.value.contents.chars)
        /\ Returns(c, "completed", "Exercise completed successfully")
        /\ DirectStatus(d, 500) /\ FallbackContents(d)
        /\ ~HasMarker(calls[d].resps[3].got.value.contents.chars)
        /\ Returns(d, "not-completed", "Completion phrase not found")

\* C12: when the direct request got a non-success status other than 403 and
\* 404 and the fallback response is a non-success too, the call returns
\* status error with details "HTTP <status>: <reason phrase>" of the
\* fallback response, and reads no body.
C12_FallbackFailureReported ==
    \A c \in DOMAIN calls :
        ( /\ DirectOther(c)
          /\ Len(calls[c].resps) >= 2
          /\ calls[c].resps[2].of = "proxy"
          /\ ~calls[c].resps[2].got.threw
          /\ calls[c].resps[2].got.value.status \notin 200..299 ) =>
            /\ Len(calls[c].resps) = 2
            /\ Returns(c, "error",
                       "HTTP " \o ToString(calls[c].resps[2].got.value.status)
                          \o ": " \o calls[c].resps[2].got.value.statusText)

\* C12 witness: a direct 500 and a fallback 502 were reported as
\* "HTTP 502: Bad Gateway".
C12_Witness ==
    \E c \in DOMAIN calls :
        /\ DirectStatus(c, 500)
        /\ Len(calls[c].resps) = 2
        /\ calls[c].resps[2].of = "proxy"
        /\ ~calls[c].resps[2].got.threw
        /\ calls[c].resps[2].got.value.status = 502
        /\ Returns(c, "error", "HTTP 502: Bad Gateway")

\* s is empty or has white space only
Blank(s) == \A p \in 1..Len(s) : s[p] \in WhiteSpace

\* C13: a validateUser call whose username is empty or blank has returned
\* {username: "", status: error, details: "Invalid username"} at once and
\* has issued no request.
C13_BlankUsernameRejected ==
    \A c \in DOMAIN calls :
        Blank(calls[c].arg) =>
            /\ calls[c].stage = "fulfilled"
            /\ calls[c].settled =
                  << [threw |-> FALSE,
                      value |-> [username |-> <<>>, status |-> "error",
                                 details |-> "Invalid username"]] >>
            /\ calls[c].reqs = <<>>
            /\ calls[c].resps = <<>>

\* C13 witness: an empty username and one of white space were both rejected
\* while a call of the same batch was waiting for the network.
C13_Witness ==
    \E c, d, l \in DOMAIN calls :
        /\ calls[c].arg = <<>>
        /\ calls[d].arg # <<>> /\ Blank(calls[d].arg)
        /\ calls[c].settled # <<>> /\ calls[d].settled # <<>>
        /\ calls[l].batch = calls[c].batch
        /\ calls[l].stage = "direct"
        /\ calls[l].reqs # <<>>

\* call c fetched a body: the text of a direct response or the string
\* `contents` of a fallback envelope
FetchedBody(c) ==
    LET last == calls[c].resps[Len(calls[c].resps)] IN
    IF last.of = "text" THEN last.got.value.chars
    ELSE last.got.value.contents.chars

HasFetchedBody(c) ==
    /\ calls[c].resps # <<>>
    /\ LET last == calls[c].resps[Len(calls[c].resps)] IN
       /\ ~last.got.threw
       /\ \/ last.of = "text" /\ last.got.value.type = "string"
          \/ /\ last.of = "json"
             /\ "contents" \in DOMAIN last.got.value
             /\ last.got.value.contents.type = "string"

\* C14: a call that fetched a body returns completed, with details
\* "Exercise completed successfully", exactly when the body holds the marker
\* character for character, and otherwise not-completed with details
\* "Completion phrase not found"; no call is completed or not-completed
\* without a fetched body.
C14_VerbatimMarkerMatch ==
    \A c \in DOMAIN calls :
        /\ HasFetchedBody(c) =>
              IF HasMarker(FetchedBody(c))
              THEN Returns(c, "completed", "Exercise completed successfully")
              ELSE Returns(c, "not-completed", "Completion phrase not found")
        /\ ( /\ Settled(calls[c])
             /\ ~calls[c].settled[1].threw
             /\ calls[c].settled[1].value.status # "error" ) =>
              HasFetchedBody(c)

\* C14 witness: a body holding the marker in another case gave
\* not-completed, and a body holding the marker inside other text gave
\* completed.
C14_Witness ==
    \E c, d \in DOMAIN calls :
        /\ HasFetchedBody(c)
        /\ ~HasMarker(FetchedBody(c))
        /\ \E k \in 0..(Len(FetchedBody(c)) - Len(ClaimedMarker)) :
              toLowerCase(SubSeq(FetchedBody(c), k + 1, k + Len(ClaimedMarker)))
                 = toLowerCase(ClaimedMarker)
        /\ Returns(c, "not-completed", "Completion phrase not found")
        /\ HasFetchedBody(d)
        /\ HasMarker(FetchedBody(d))
        /\ Len(FetchedBody(d)) > Len(ClaimedMarker)
        /\ Returns(d, "completed", "Exercise completed successfully")

\* sequence a is an initial part of sequence b
IsPrefix(a, b) == Len(a) <= Len(b) /\ SubSeq(b, 1, Len(a)) = a

\* C15: of two validateUser calls of a run (one token) for the same
\* username, whether concurrent or one after the other, the one that was
\* given the same answers as the other to the same requests has returned the
\* same result after the same requests: no call's outcome depends on what
\* another call did before it.
C15_SameInputsSameResult ==
    \A c, d \in DOMAIN calls :
        ( /\ calls[c].username = calls[d].username
          /\ Settled(calls[c])
          /\ IsPrefix(calls[c].resps, calls[d].resps) ) =>
            /\ calls[d].settled = calls[c].settled
            /\ calls[d].reqs = calls[c].reqs
            /\ calls[d].resps = calls[c].resps

\* C15 witness: a call of a later batch for an account that an earlier,
\* finished batch had asked for was given the same answer and has returned
\* the same result.
C15_Witness ==
    \E c, d \in DOMAIN calls :
        /\ calls[c].batch < calls[d].batch
        /\ calls[c].username = calls[d].username
        /\ calls[c].resps # <<>>
        /\ calls[c].resps = calls[d].resps
        /\ Settled(calls[c])
        /\ calls[d].settled = calls[c].settled

\* C16: the one direct request of a call carries the header
\* `Authorization: token <token>` and no other if a token was supplied, and
\* no header at all if none was.
C16_AuthorizationIffToken ==
    \A c \in DOMAIN calls :
        \A r \in DOMAIN calls[c].reqs :
            calls[c].reqs[r].to = "direct" =>
                IF TokenPresent
                THEN /\ DOMAIN calls[c].reqs[r].headers = {"Authorization"}
                     /\ calls[c].reqs[r].headers["Authorization"]
                           = "token " \o token
                ELSE DOMAIN calls[c].reqs[r].headers = {}

\* C16 witness: a direct request was issued with the token's header.
C16_Witness ==
    \E c \in DOMAIN calls :
        /\ TokenPresent
        /\ calls[c].reqs # <<>>
        /\ calls[c].reqs[1].to = "direct"
        /\ calls[c].reqs[1].headers["Authorization"] = "token ghp_x"

\* the pieces of text a proxy URL is made of, besides the username
TextOf(url) == { url[1], url[2].encoded[1], url[2].encoded[3] }

\* C20: a request to the proxy carries no header, and its URL is the proxy
\* prefix followed by the encoded README URL of the call's username and
\* nothing else; the token is no part of it.
C20_TokenNotSentToProxy ==
    \A c \in DOMAIN calls :
        \A r \in DOMAIN calls[c].reqs :
            calls[c].reqs[r].to = "proxy" =>
                /\ DOMAIN calls[c].reqs[r].headers = {}
                /\ calls[c].reqs[r].url =
                      << "https://api.allorigins.win/get?url=",
                         [encoded |->
                            << "https://raw.githubusercontent.com/",
                               calls[c].username,
                               "/skills-getting-started-with-github-copilot/main/README.md" >>] >>
                /\ TextOf(calls[c].reqs[r].url)
                      \cap {token, "token " \o token} = {}

\* C20 witness: in a run with a token, a call whose direct request carried
\* the token went on to the proxy.
C20_Witness ==
    \E c \in DOMAIN calls :
        /\ TokenPresent
        /\ Len(calls[c].reqs) = 2
        /\ calls[c].reqs[1].headers["Authorization"] = "token ghp_x"
        /\ calls[c].reqs[2].to = "proxy"

\* What a call for username u (trimmed) that has received the completions h
\* to its own requests and reads has to show: nothing yet, or its result.
NothingYet == [pending |-> TRUE]
ClaimedOutcome(u, h) ==
    LET last == h[Len(h)]
        verdict(chars) ==
            IF HasMarker(chars)
            THEN [username |-> u, status |-> "completed",
                  details |-> "Exercise completed successfully"]
            ELSE [username |-> u, status |-> "not-completed",
                  details |-> "Completion phrase not found"]
        error(text) == [username |-> u, status |-> "error", details |-> text]
    IN IF u = <<>> THEN error("Invalid username")
       ELSE IF h = <<>> THEN NothingYet
       ELSE IF last.got.threw THEN error(last.got.message)
       ELSE IF last.of = "direct"
            THEN IF last.got.value.status = 403
                 THEN error("API rate limit exceeded")
                 ELSE IF last.got.value.status = 404
                 THEN error("Repository or README not found")
                 ELSE NothingYet
       ELSE IF last.of = "proxy"
            THEN IF last.got.value.status \in 200..299 THEN NothingYet
                 ELSE error("HTTP " \o ToString(last.got.value.status)
                               \o ": " \o last.got.value.statusText)
       ELSE IF last.of = "text" THEN verdict(last.got.value.chars)
       ELSE IF /\ "contents" \in DOMAIN last.got.value
               /\ last.got.value.contents.type = "string"
            THEN verdict(last.got.value.contents.chars)
            ELSE error("Cannot read properties of undefined (reading 'includes')")

\* what call c shows
Shown(call) ==
    IF call.settled = <<>> THEN NothingYet
    ELSE IF call.settled[1].threw THEN [thrown |-> call.settled[1].message]
    ELSE call.settled[1].value

\* C18: whatever the order in which the concurrent calls of a batch are
\* answered, every step leaves each call with the outcome that its own
\* username and the completions of its own requests determine; a step that
\* resumes one call changes no other call, and a settled call never changes.
C18_CallsDoNotInterfere ==
    [][ /\ \A c \in DOMAIN calls' :
              Shown(calls'[c]) = ClaimedOutcome(calls'[c].username,
                                                calls'[c].resps)
        /\ \A c \in DOMAIN calls :
              /\ calls'[c] # calls[c] =>
                    /\ ~Settled(calls[c])
                    /\ Len(calls'[c].resps) = Len(calls[c].resps) + 1
                    /\ IsPrefix(calls[c].resps, calls'[c].resps)
                    /\ \A d \in DOMAIN calls \ {c} : calls'[d] = calls[d]
              /\ Settled(calls[c]) => calls'[c] = calls[c]
      ]_vars

\* C18 witness: of two calls in flight together one was rate-limited and the
\* other, answered later or earlier, found the marker in its README.
C18_Witness ==
    \E c, d \in DOMAIN calls :
        /\ calls[c].batch = calls[d].batch
        /\ DirectStatus(c, 403)
        /\ Returns(c, "error", "API rate limit exceeded")
        /\ Len(calls[d].resps) = 2
        /\ calls[d].resps[2].of = "text"
        /\ Returns(d, "completed", "Exercise completed successfully")

\* the number of usernames in the first k batches
UpTo(k) == Min(k * ClaimedBatchSize, Len(usernames))

\* C17: the steps of a batch come in the order settle, append, progress,
\* pause, next batch.  The results of batch k are in `results` only when all
\* its calls have settled; the callback has been invoked for batch k, with the
\* number of results up to that batch, only when they are in `results`; the
\* pause after batch k is set only when the callback has been invoked for it;
\* while that pause runs no call of batch k+1 exists, and a batch other than
\* the first is issued only by the step that ends a pause.
C17_BatchStepOrder ==
    /\ [] \A k \in 1..Len(batches) :
            /\ Len(results) >= UpTo(k) =>
                  \A c \in DOMAIN calls : calls[c].batch = k => Settled(calls[c])
            /\ (progressCallback /\ Len(progressCalls) >= k) =>
                  /\ progressCalls[k][1] = UpTo(k)
                  /\ Len(results) >= UpTo(k)
            /\ Len(pauses) >= k =>
                  /\ Len(results) >= UpTo(k)
                  /\ progressCallback => Len(progressCalls) >= k
            /\ k > 1 => Len(pauses) >= k - 1
    /\ [] (pc = "delay" =>
            /\ Len(pauses) = Len(batches)
            /\ \A c \in DOMAIN calls : calls[c].batch <= Len(pauses))
    /\ [][ Len(batches') > Len(batches) =>
              /\ Len(batches') = Len(batches) + 1
              /\ pc \in {"idle", "delay"}
              /\ pc = "delay" => Len(pauses) = Len(batches) ]_vars

\* C17 witness: the fetches of a third batch are out, after two pauses, two
\* invocations of the callback and the results of two batches.
C17_Witness ==
    /\ progressCallback
    /\ pc = "await_all"
    /\ Len(batches) = 3
    /\ Len(pauses) = 2
    /\ Len(progressCalls) = 2
    /\ Len(results) = Len(batches[1]) + Len(batches[2])
    /\ \E c \in DOMAIN calls :
          /\ calls[c].batch = 3
          /\ calls[c].stage = "direct"
          /\ calls[c].reqs # <<>>

\* a GitHub username: 1 to 39 characters, letters, digits or hyphens, the
\* first not a hyphen
WellFormed(u) ==
    /\ Len(u) \in 1..39
    /\ \A p \in 1..Len(u) :
          \/ u[p] \in Digits
          \/ \E k \in 1..26 : u[p] \in {UpperCase[k], LowerCase[k]}
          \/ u[p] = "-"
    /\ u[1] # "-"

\* the form holds at least one username and well-formed usernames only
Acceptable ==
    /\ getUsernames(textarea) # <<>>
    /\ \A j \in 1..Len(getUsernames(textarea)) :
          WellFormed(getUsernames(textarea)[j])

\* C19: in a handleValidation run, validateUsers is called and requests are
\* made only for a form that validateForm accepts; when the list is empty or
\* a username is not well-formed the run has returned with an error shown
\* and without a call; every username handed to validateUser is non-empty,
\* well-formed and already trimmed, and is one of the form's.
C19_OnlyValidFormsReachFetcher ==
    /\ (pc # "idle" \/ calls # <<>> \/ hv \in {"warning", "validating"}) =>
          Acceptable
    /\ (hv # "ready" /\ ~Acceptable) =>
          /\ hv = "returned"
          /\ ~errorMessage.hidden
          /\ errorMessage.textContent # <<>>
          /\ pc = "idle"
          /\ calls = <<>>
    /\ \A c \in DOMAIN calls :
          /\ WellFormed(calls[c].arg)
          /\ calls[c].username = calls[c].arg
          /\ c <= Len(getUsernames(textarea))
          /\ calls[c].arg = getUsernames(textarea)[c]
          /\ calls[c].reqs # <<>>

\* C19 witness: a form with a good username and one that starts with a
\* hyphen was rejected with that name reported and no call made.
C19_Witness ==
    /\ hv = "returned"
    /\ Len(getUsernames(textarea)) = 2
    /\ \E j \in 1..2 : WellFormed(getUsernames(textarea)[j])
    /\ ~errorMessage.hidden
    /\ errorMessage.textContent =
          << [text |-> "Invalid username format: ",
              names |-> << <<"-", "b", "o", "b">> >>] >>
    /\ calls = <<>>

\* validateUsers of invocation r has been called and has not returned
InProgress(r) == r \in DOMAIN runs /\ runs[r].at \in {"await_all", "delay"}

\* the check button is disabled, with the spinner, and its text says so
LoadingShown == loading /\ buttonLabel # << "Check Completion" >>

\* C21: however submissions and shortcut presses interleave, while the
\* validateUsers run of any invocation is in progress the button is disabled
\* and shows the loading state; a step clears the loading state only if it
\* leaves no run in progress; and every run in progress (which has shown the
\* loading state) goes on to its hideLoading.
C21_LoadingWhileAnyRunInProgress ==
    /\ [] (\A r \in 1..MaxRuns : InProgress(r) => LoadingShown)
    /\ [][ (loading /\ ~loading') =>
              \A r \in DOMAIN runs' : runs'[r].at \notin {"await_all", "delay"} ]_vars
    /\ \A r \in 1..MaxRuns :
          InProgress(r) ~> (r \in DOMAIN runs /\ runs[r].at = "returned")

====
